---------------------------- MODULE Spec2Model ----------------------------
(***************************************************************************)
(* The WSN dashboard's dataset contract: load_data, filter_data and        *)
(* get_stats of utils.py, as the dashboard (app.py) uses them.             *)
(*                                                                         *)
(* A CSV source is a header (a sequence of column names) and a sequence of *)
(* rows of text cells.  Only the six columns load_data converts are held   *)
(* cell by cell; the twelve other required columns pass through load_data  *)
(* untouched and are present in the model by name only.                    *)
(*                                                                         *)
(* Floats (Time, Rest_Energy) are held as integers counting halves: the    *)
(* cell "1" read as a float is 2, the cell "1.5" is 3.  NaN is pandas'     *)
(* missing value.                                                          *)
(***************************************************************************)
EXTENDS Integers, Sequences, FiniteSets, TLC

VARIABLES
    source,     \* the CSV input handed to load_data
    pc,         \* "start", "loaded" (load_data returned), "failed" (it raised)
    heap,       \* the live DataFrame objects: object id -> frame
    df,         \* object id of the loaded dataset, None before / without one
    err,        \* the exception load_data raised, NoErr if none
    snapshot,   \* the rows of the dataset as load_data returned them
    pred,       \* the arguments of the last filter_data call, or the selection of
                \* the Apply Filters the last run handled
    view,       \* object id of the last derived view, None if none
    prev,       \* rows of the view a repeated filter_data call started from
    lastCall,   \* the last call made on the dataset, or the last interaction
    stats,      \* the result of the last get_stats call, NoStats if none
    statsOf,    \* the rows of the frame that call was made on
    top_n,      \* app.py:235, the slider's value
    top_nodes,  \* app.py:236, the node ids selected, <<>> before the selection
    filtered_csv,   \* app.py:388, <<the CSV text of the export>>, <<>> before it
    reloaded,   \* <<what load_data returns for filtered_csv>>, <<>> before the call
    uploaded_file,  \* app.py:31, the file in the uploader, NoFile if none
    use_demo_data,  \* app.py:34, the checkbox
    demo_file,  \* the file at the demo path of app.py:52
    filtered_df,    \* st.session_state['filtered_df']: <<the frame>>, <<>> if the key is absent
    shown,      \* the message the last run of the script ended its loading with
    calls,      \* the number of load_data calls of the last run
    blockchain_connected,   \* st.session_state.get('blockchain_connected', False)
    web3_instance,  \* whether st.session_state holds a 'web3_instance'
    contract_deployed,  \* st.session_state.get('contract_deployed', False)
    contract_address,   \* st.session_state.get('contract_address'), "" if absent
    successful_txs, \* st.session_state['successful_txs']: <<the count>>, <<>> if absent
    tx_hashes,  \* st.session_state['tx_hashes'], <<>> if absent
    last_connect,   \* how the last Connect attempt ended: "none", "ok", "failed"
    clicked,    \* the button the last run of the blockchain panel handled
    sent,       \* the calls of send_wsn_data_to_blockchain of that run, in order
    wrote,      \* whether that run wrote successful_txs and tx_hashes
    form        \* the values of the form that run submitted, NoForm if it submitted none

\* the variables of the top-nodes selection, of the export and of the
\* dashboard's runs
topVars == <<top_n, top_nodes>>
exportVars == <<filtered_csv, reloaded>>
dashVars == <<uploaded_file, use_demo_data, demo_file, filtered_df, shown, calls>>
chainVars == <<blockchain_connected, web3_instance, contract_deployed, contract_address,
               successful_txs, tx_hashes, last_connect, clicked, sent, wrote, form>>
others == <<topVars, exportVars, dashVars, chainVars>>

vars == <<source, pc, heap, df, err, snapshot, pred, view, prev, lastCall, stats, statsOf,
          others>>

---------------------------------------------------------------------------
(* Bounds of the model *)

MaxRows == 2
MaxSeries == 3
MaxTopN == 2

---------------------------------------------------------------------------
(* Values *)

None == 0
NaN == -1
NoErr == [type |-> "none", msg |-> <<>>]
NoStats == [total_records |-> NaN]

\* An argument of filter_data: None (given is FALSE), or a tuple
\* (min, max), or a list of items
Absent == [given |-> FALSE, min |-> 0, max |-> 0, items |-> {}]
TimeRange(a, b) == [given |-> TRUE, min |-> a, max |-> b, items |-> {a, b}]
List(S) == [given |-> TRUE, min |-> 0, max |-> 0, items |-> S]
NoPred == [time_range |-> Absent, node_ids |-> Absent, classes |-> Absent]

\* utils.py:23-29
expected_columns ==
    << "Event", "Time", "S_Node", "Node_id", "Rest_Energy",
       "Trace_Level", "Mac_Type_Pckt", "Source_IP_Port",
       "Des_IP_Port", "Packet_Size", "TTL", "Hop_Count",
       "Broadcast_ID", "Dest_Node_Num", "Dest_Seq_Num",
       "Src_Node_ID", "Src_Seq_Num", "Class" >>

\* the columns utils.py:37-42 convert, in the order they are converted
IntColumns == {"Event", "S_Node", "Node_id"}
FloatColumns == {"Time", "Rest_Energy"}
ConvertedColumns == << "Event", "Time", "S_Node", "Node_id", "Rest_Energy", "Class" >>

Range(s) == {s[i] : i \in 1..Len(s)}

---------------------------------------------------------------------------
(* CSV cells *)

IntCell(n) == [k |-> "int", v |-> n, s |-> ToString(n)]
FracCell(n) == [k |-> "frac", v |-> n, s |-> ToString(n) \o ".5"]
WholeCell(n) == [k |-> "whole", v |-> n, s |-> ToString(n) \o ".0"]
TextCell(t) == [k |-> "text", v |-> 0, s |-> t]
EmptyCell == [k |-> "empty", v |-> 0, s |-> ""]

---------------------------------------------------------------------------
(* pandas: read_csv's column type inference and Series.astype *)

Column(rows, col) == [i \in 1..Len(rows) |-> rows[i][col]]

\* read_csv: a column of integer cells is int64; numeric cells with
\* fractions or blanks make it float64 (a blank is NaN); any other cell
\* leaves every cell of the column a string (a blank is still NaN).
InferDtype(cells) ==
    IF Len(cells) = 0 THEN "object"
    ELSE IF \A i \in 1..Len(cells) : cells[i].k = "int" THEN "int64"
    ELSE IF \A i \in 1..Len(cells) : cells[i].k \in {"int", "frac", "whole", "empty"} THEN "float64"
    ELSE "object"

Raised(type, text, detail) == [ok |-> FALSE, type |-> type, text |-> text, detail |-> detail, values |-> <<>>]
Converted(values) == [ok |-> TRUE, type |-> "none", text |-> "", detail |-> <<>>, values |-> values]

\* Series.astype(int)
AsTypeInt(cells) ==
    LET dtype == InferDtype(cells)
        bad == {i \in 1..Len(cells) : cells[i].k # "int"}
        first == CHOOSE i \in bad : \A j \in bad : i <= j
    IN  IF dtype = "int64" THEN Converted([i \in 1..Len(cells) |-> cells[i].v])
        ELSE IF dtype = "float64"
        THEN IF \E i \in 1..Len(cells) : cells[i].k = "empty"
             THEN Raised("IntCastingNaNError",
                         "Cannot convert non-finite values (NA or inf) to integer", <<>>)
             ELSE Converted([i \in 1..Len(cells) |-> cells[i].v])   \* 1.5 is truncated to 1
        ELSE IF bad = {} THEN Converted([i \in 1..Len(cells) |-> cells[i].v])
        ELSE IF cells[first].k = "empty"
             THEN Raised("ValueError", "cannot convert float NaN to integer", <<>>)
             ELSE Raised("ValueError", "invalid literal for int() with base 10: ",
                         <<cells[first].s>>)

FloatOf(cell) ==
    IF cell.k \in {"int", "whole"} THEN 2 * cell.v
    ELSE IF cell.k = "frac" THEN 2 * cell.v + 1
    ELSE NaN

\* Series.astype(float)
AsTypeFloat(cells) ==
    LET bad == {i \in 1..Len(cells) : cells[i].k = "text"}
        first == CHOOSE i \in bad : \A j \in bad : i <= j
    IN  IF bad = {} THEN Converted([i \in 1..Len(cells) |-> FloatOf(cells[i])])
        ELSE Raised("ValueError", "could not convert string to float: ", <<cells[first].s>>)

\* Series.astype(str): never raises; a blank becomes the string "nan"
AsTypeStr(cells) ==
    LET dtype == InferDtype(cells)
        str(cell) == IF cell.k = "empty" THEN "nan"
                     ELSE IF dtype = "float64" /\ cell.k = "int" THEN cell.s \o ".0"
                     ELSE cell.s
    IN  Converted([i \in 1..Len(cells) |-> str(cells[i])])

AsType(col, cells) ==
    IF col \in IntColumns THEN AsTypeInt(cells)
    ELSE IF col \in FloatColumns THEN AsTypeFloat(cells)
    ELSE AsTypeStr(cells)

---------------------------------------------------------------------------
(* utils.py: load_data *)

\* as missing_columns, stopping at the first column found missing
missing_columns_first(columns) ==
    LET missing == SelectSeq(expected_columns, LAMBDA col : col \notin Range(columns))
    IN  IF missing = <<>> THEN <<>> ELSE <<missing[1]>>

\* utils.py:32
missing_columns(columns) ==
    SelectSeq(expected_columns, LAMBDA col : col \notin Range(columns))

\* utils.py:37-42: the conversions run in this order; the first that
\* raises ends them
RECURSIVE FirstRaise(_, _)
FirstRaise(rows, k) ==
    IF k > Len(ConvertedColumns) THEN Converted(<<>>)
    ELSE LET r == AsType(ConvertedColumns[k], Column(rows, ConvertedColumns[k]))
         IN  IF r.ok THEN FirstRaise(rows, k + 1) ELSE r

\* the rows after utils.py:37-42: a RangeIndex and the converted values
Records(src) ==
    LET rows == src.rows
        val(col) == AsType(col, Column(rows, col)).values
    IN  [i \in 1..Len(rows) |->
           [idx |-> i - 1,
            Event |-> val("Event")[i],
            Time |-> val("Time")[i],
            S_Node |-> val("S_Node")[i],
            Node_id |-> val("Node_id")[i],
            Rest_Energy |-> val("Rest_Energy")[i],
            Class |-> val("Class")[i]]]

SameValues(r, q) == [r EXCEPT !.idx = 0] = [q EXCEPT !.idx = 0]

\* as ConvertedFrame, with a df.drop_duplicates() slipped into the preprocessing
ConvertedFrameDedup(src) ==
    [columns |-> src.header,
     rows |-> SelectSeq(Records(src),
                        LAMBDA r : ~\E q \in Range(Records(src)) :
                                       q.idx < r.idx /\ SameValues(q, r))]

\* the frame load_data returns (utils.py:44): the columns of the header
\* and the converted rows
ConvertedFrame(src) == [columns |-> src.header, rows |-> Records(src)]

\* utils.py:46-47: every exception is raised again as a plain Exception
\* whose message is the prefix and str(e); the class of e is dropped
Wrap(e) ==
    [ok |-> FALSE,
     frame |-> <<>>,
     err |-> [type |-> "Exception", msg |-> <<"Error loading data: ", e.text, e.detail>>]]

\* utils.py:8-47
load_data(src) ==
    IF src.kind = "missing"
    THEN Wrap(Raised("FileNotFoundError", "[Errno 2] No such file or directory: ", <<src.path>>))
    ELSE IF src.kind = "empty"
    THEN Wrap(Raised("EmptyDataError", "No columns to parse from file", <<>>))
    ELSE IF missing_columns(src.header) # <<>>
    THEN Wrap(Raised("ValueError", "Missing required columns: ", missing_columns(src.header)))
    ELSE IF ~FirstRaise(src.rows, 1).ok
    THEN Wrap(FirstRaise(src.rows, 1))
    ELSE [ok |-> TRUE, frame |-> ConvertedFrame(src), err |-> NoErr]

---------------------------------------------------------------------------
(* The CSV inputs of the loader's specification *)

Nodes == {78, 79}
Classes == {"normal", "Blackhole"}
Droppable == {"Event", "Hop_Count", "Class"}

CsvRow(t, n, c, e) ==
    [Event |-> IntCell(1), Time |-> t, S_Node |-> IntCell(n), Node_id |-> IntCell(n),
     Rest_Energy |-> e, Class |-> TextCell(c)]

Headers ==
    LET kept(D) == SelectSeq(expected_columns, LAMBDA col : col \notin D)
    IN  {kept(D) : D \in SUBSET Droppable} \cup {kept(D) \o <<"Extra">> : D \in SUBSET Droppable}

SeqsUpTo(S, n) == UNION {[1..k -> S] : k \in 0..n}

\* a cell of a row replaced by a cell of another shape
BadCells == {TextCell("abc"), EmptyCell, FracCell(1)}
Spoil(rows, i, col, cell) == [rows EXCEPT ![i] = [@ EXCEPT ![col] = cell]]

LoadRows ==
    LET good == SeqsUpTo({CsvRow(IntCell(0), n, c, IntCell(600)) : n \in Nodes, c \in Classes}, MaxRows)
    IN  good \cup UNION {{Spoil(rows, i, col, cell) :
                              i \in 1..Len(rows), col \in Range(ConvertedColumns),
                              cell \in BadCells} : rows \in good}

Csv(header, rows) == [kind |-> "csv", path |-> "upload", header |-> header, rows |-> rows]

LoadSources ==
    {[kind |-> "missing", path |-> "WSNBFSFdataset.csv", header |-> <<>>, rows |-> <<>>],
     [kind |-> "empty", path |-> "upload", header |-> <<>>, rows |-> <<>>]}
    \cup {Csv(h, rows) : h \in Headers, rows \in LoadRows}

---------------------------------------------------------------------------
(* The loader *)

NoFile == [kind |-> "none", path |-> "", header |-> <<>>, rows |-> <<>>]

\* blockchain.py:337-340: the multiselect starts empty, the checkbox unticked
NoForm == [selected_nodes |-> {}, only_attacks |-> FALSE]

TopInit ==
    /\ top_n = 0
    /\ top_nodes = <<>>

ExportInit ==
    /\ filtered_csv = <<>>
    /\ reloaded = <<>>

DashInit ==
    /\ uploaded_file = NoFile
    /\ use_demo_data = TRUE
    /\ demo_file = NoFile
    /\ filtered_df = <<>>
    /\ shown = <<>>
    /\ calls = 0

ChainInit ==
    /\ blockchain_connected = FALSE
    /\ web3_instance = FALSE
    /\ contract_deployed = FALSE
    /\ contract_address = ""
    /\ successful_txs = <<>>
    /\ tx_hashes = <<>>
    /\ last_connect = "none"
    /\ clicked = "none"
    /\ sent = <<>>
    /\ wrote = FALSE
    /\ form = NoForm

OthersInit == TopInit /\ ExportInit /\ DashInit /\ ChainInit

InitLoad ==
    /\ source \in LoadSources
    /\ pc = "start"
    /\ heap = <<>>
    /\ df = None
    /\ err = NoErr
    /\ snapshot = <<>>
    /\ pred = NoPred
    /\ view = None
    /\ prev = <<>>
    /\ lastCall = "none"
    /\ stats = NoStats
    /\ statsOf = <<>>
    /\ OthersInit

\* df = load_data(source), app.py:46 and :52
LoadData ==
    /\ pc = "start"
    /\ LET r == load_data(source)
       IN  IF r.ok
           THEN /\ pc' = "loaded"
                /\ heap' = <<r.frame>>
                /\ df' = 1
                /\ snapshot' = r.frame.rows
                /\ err' = NoErr
           ELSE /\ pc' = "failed"
                /\ err' = r.err
                /\ UNCHANGED <<heap, df, snapshot>>
    /\ UNCHANGED <<source, pred, view, prev, lastCall, stats, statsOf, others>>

NextLoad == LoadData

SpecLoad == InitLoad /\ [][NextLoad]_vars

---------------------------------------------------------------------------
(* pandas: DataFrame objects *)

\* a new object is given the lowest id not in use
Alloc(h, frame) ==
    LET id == CHOOSE i \in 1..(Cardinality(DOMAIN h) + 1) :
                  i \notin DOMAIN h /\ \A j \in 1..(i - 1) : j \in DOMAIN h
    IN  [heap |-> [o \in DOMAIN h \cup {id} |-> IF o = id THEN frame ELSE h[o]], ref |-> id]

\* as Copy, without the copy: the name is bound to the same object
CopyAlias(h, d) == [heap |-> h, ref |-> d]

\* as Copy, with df.dropna() in place of df.copy()
CopyDropna(h, d) ==
    Alloc(h, [h[d] EXCEPT !.rows = SelectSeq(@, LAMBDA r : r.Time # NaN)])

\* as Copy, with the copy put in Time order (df.sort_values('Time')),
\* NaN last
RECURSIVE SortByTime(_)
SortByTime(rows) ==
    IF rows = <<>> THEN <<>>
    ELSE LET key(r) == IF r.Time = NaN THEN 1000000 ELSE r.Time
             least == CHOOSE i \in 1..Len(rows) :
                          \A j \in 1..Len(rows) :
                              \/ key(rows[i]) < key(rows[j])
                              \/ key(rows[i]) = key(rows[j]) /\ i <= j
         IN  <<rows[least]>> \o
             SortByTime([k \in 1..(Len(rows) - 1) |-> IF k < least THEN rows[k] ELSE rows[k + 1]])
CopySorted(h, d) == Alloc(h, [h[d] EXCEPT !.rows = SortByTime(@)])

\* df.copy(), utils.py:62
Copy(h, d) == Alloc(h, h[d])

\* df[mask]: a new frame of the rows the mask keeps, in their order, under
\* their index labels.  A mask is the set of index labels it is True at.
Index(h, d, mask) ==
    Alloc(h, [h[d] EXCEPT !.rows = SelectSeq(@, LAMBDA r : r.idx \in mask)])

\* objects no variable refers to are freed
Collect(h, live) == [o \in DOMAIN h \cap live |-> h[o]]

\* a comparison with NaN is False
Ge(x, y) == x # NaN /\ x >= y
Le(x, y) == x # NaN /\ x <= y
Lt(x, y) == x # NaN /\ x < y

\* as Truthy, written "is not None"
TruthyNotNone(x) == x.given

\* bool(x) of an argument, utils.py:65, :71, :75: None and the empty list
\* are false
Truthy(x) == x.given /\ x.items # {}

---------------------------------------------------------------------------
(* utils.py: filter_data *)

\* as TimeMask, with the upper bound exclusive
TimeMaskStrict(frame, time_range) ==
    {r.idx : r \in {q \in Range(frame.rows) :
                       Ge(q.Time, time_range.min) /\ Lt(q.Time, time_range.max)}}

\* as TimeMask, with the range taken as time elapsed since the frame's
\* first event
TimeMaskElapsed(frame, time_range) ==
    LET times == {q.Time : q \in Range(frame.rows)} \ {NaN}
        t0 == CHOOSE t \in times : \A u \in times : t <= u
    IN  {r.idx : r \in {q \in Range(frame.rows) :
                           /\ q.Time # NaN
                           /\ q.Time - t0 >= time_range.min
                           /\ q.Time - t0 <= time_range.max}}

\* utils.py:67-68
TimeMask(frame, time_range) ==
    {r.idx : r \in {q \in Range(frame.rows) :
                       Ge(q.Time, time_range.min) /\ Le(q.Time, time_range.max)}}

\* utils.py:72
NodeMask(frame, node_ids) ==
    {r.idx : r \in {q \in Range(frame.rows) : q.Node_id \in node_ids.items}}

\* utils.py:76
ClassMask(frame, classes) ==
    {r.idx : r \in {q \in Range(frame.rows) : q.Class \in classes.items}}

\* utils.py:62-78.  The result is the heap after the call and the
\* reference returned.
filter_data(h, d, time_range, node_ids, classes) ==
    LET s0 == Copy(h, d)
        s1 == IF Truthy(time_range)
              THEN Index(s0.heap, s0.ref, TimeMask(s0.heap[s0.ref], time_range))
              ELSE s0
        s2 == IF Truthy(node_ids)
              THEN Index(s1.heap, s1.ref, NodeMask(s1.heap[s1.ref], node_ids))
              ELSE s1
        s3 == IF Truthy(classes)
              THEN Index(s2.heap, s2.ref, ClassMask(s2.heap[s2.ref], classes))
              ELSE s2
    IN  s3

---------------------------------------------------------------------------
(* utils.py: get_stats *)

Min(S) == CHOOSE x \in S : \A y \in S : x <= y
Max(S) == CHOOSE x \in S : \A y \in S : x >= y

RECURSIVE Sum(_, _)
Sum(rows, col) ==
    IF rows = <<>> THEN 0
    ELSE (IF Head(rows)[col] = NaN THEN 0 ELSE Head(rows)[col]) + Sum(Tail(rows), col)

\* Series.min(), .max(), .mean() skip NaN and are NaN over no value
Present(rows, col) == {rows[i][col] : i \in 1..Len(rows)} \ {NaN}

\* as SeriesMin, with 0 for a series without a value (min(..., default=0))
SeriesMinDefault(rows, col) == IF Present(rows, col) = {} THEN 0 ELSE Min(Present(rows, col))

SeriesMin(rows, col) == IF Present(rows, col) = {} THEN NaN ELSE Min(Present(rows, col))
SeriesMax(rows, col) == IF Present(rows, col) = {} THEN NaN ELSE Max(Present(rows, col))
\* the mean as the pair <<sum, count>>
SeriesMean(rows, col) ==
    IF Present(rows, col) = {} THEN <<NaN, 0>>
    ELSE <<Sum(rows, col), Cardinality({i \in 1..Len(rows) : rows[i][col] # NaN})>>

\* as RowCount, reading df.shape[1]
ColumnCount(frame) == Len(frame.columns)

\* df.shape[0], utils.py:91
RowCount(frame) == Len(frame.rows)

\* as ValueCounts, counting the distinct nodes of each value
\* (df.groupby(col)['Node_id'].nunique())
ValueCountsNunique(rows, col) ==
    [c \in {rows[i][col] : i \in 1..Len(rows)} |->
        Cardinality({rows[i].Node_id : i \in {j \in 1..Len(rows) : rows[j][col] = c}})]

\* Series.value_counts().to_dict(), utils.py:94: each value that occurs,
\* with the number of rows holding it
ValueCounts(rows, col) ==
    [c \in {rows[i][col] : i \in 1..Len(rows)} |->
        Cardinality({i \in 1..Len(rows) : rows[i][col] = c})]

\* utils.py:90-100
get_stats(frame) ==
    LET rows == frame.rows
    IN  [total_records |-> RowCount(frame),
         unique_nodes |-> Cardinality({rows[i].Node_id : i \in 1..Len(rows)}),
         time_range |-> <<SeriesMin(rows, "Time"), SeriesMax(rows, "Time")>>,
         class_distribution |-> ValueCounts(rows, "Class"),
         avg_energy |-> SeriesMean(rows, "Rest_Energy"),
         min_energy |-> SeriesMin(rows, "Rest_Energy"),
         max_energy |-> SeriesMax(rows, "Rest_Energy")]

---------------------------------------------------------------------------
(* The filter engine: calls of filter_data and get_stats on a loaded dataset *)

\* the datasets: what load_data returns for well-formed CSV inputs, a
\* blank Time cell among them
TimeCells == {IntCell(0), IntCell(1), EmptyCell}

FilterSources ==
    {Csv(expected_columns, rows) :
        rows \in SeqsUpTo({CsvRow(t, n, c, IntCell(600)) :
                              t \in TimeCells, n \in Nodes, c \in Classes}, MaxRows)}

\* the arguments of the calls
TimeRanges == {Absent} \cup {TimeRange(FloatOf(a), FloatOf(b)) : a, b \in TimeCells \ {EmptyCell}}
NodeLists == {Absent, List({}), List({78}), List(Nodes)}
ClassLists == {Absent, List({}), List({"Blackhole"}), List(Classes)}

InitFilter ==
    /\ source \in FilterSources
    /\ pc = "loaded"
    /\ heap = <<load_data(source).frame>>
    /\ df = 1
    /\ err = NoErr
    /\ snapshot = load_data(source).frame.rows
    /\ pred = NoPred
    /\ view = None
    /\ prev = <<>>
    /\ lastCall = "none"
    /\ stats = NoStats
    /\ statsOf = <<>>
    /\ OthersInit

\* view = filter_data(df, time_range, node_ids, classes)
FilterData ==
    /\ pc = "loaded"
    /\ view = None
    /\ \E time_range \in TimeRanges, node_ids \in NodeLists, classes \in ClassLists :
          LET r == filter_data(heap, df, time_range, node_ids, classes)
          IN  /\ pred' = [time_range |-> time_range, node_ids |-> node_ids, classes |-> classes]
              /\ prev' = heap[df].rows
              /\ view' = r.ref
              /\ heap' = Collect(r.heap, {df, r.ref})
    /\ lastCall' = "filter_data"
    /\ stats' = NoStats
    /\ statsOf' = <<>>
    /\ UNCHANGED <<source, pc, df, err, snapshot, others>>

\* view = filter_data(view, ...), with the arguments of the call that made view
FilterAgain ==
    /\ pc = "loaded"
    /\ lastCall = "filter_data"
    /\ LET r == filter_data(heap, view, pred.time_range, pred.node_ids, pred.classes)
       IN  /\ prev' = heap[view].rows
           /\ view' = r.ref
           /\ heap' = Collect(r.heap, {df, r.ref})
    /\ lastCall' = "filter_again"
    /\ stats' = NoStats
    /\ statsOf' = <<>>
    /\ UNCHANGED <<source, pc, df, err, snapshot, pred, others>>

\* stats = get_stats(df) or get_stats(view)
GetStats ==
    /\ pc = "loaded"
    /\ stats = NoStats
    /\ \E d \in {df, view} \ {None} :
          /\ stats' = get_stats(heap[d])
          /\ statsOf' = heap[d].rows
    /\ UNCHANGED <<source, pc, heap, df, err, snapshot, pred, view, prev, lastCall, others>>

\* the derived view and the statistics go out of scope: the dashboard
\* derives them anew on every interaction
Discard ==
    /\ pc = "loaded"
    /\ view # None \/ stats # NoStats
    /\ view' = None
    /\ heap' = Collect(heap, {df})
    /\ pred' = NoPred
    /\ prev' = <<>>
    /\ lastCall' = "none"
    /\ stats' = NoStats
    /\ statsOf' = <<>>
    /\ UNCHANGED <<source, pc, df, err, snapshot, others>>

NextFilter == FilterData \/ FilterAgain \/ GetStats \/ Discard

SpecFilter == InitFilter /\ [][NextFilter]_vars

---------------------------------------------------------------------------
(* app.py:234-236: the top nodes by event count *)

CountOf(rows, n) == Cardinality({i \in 1..Len(rows) : rows[i].Node_id = n})
NodesOf(rows) == {rows[i].Node_id : i \in 1..Len(rows)}

Orders(S) == {o \in [1..Cardinality(S) -> S] : \A i, j \in 1..Cardinality(S) : i # j => o[i] # o[j]}

\* as ValueCountsOrders, sorted by ascending count (nsmallest for nlargest)
ValueCountsAscending(rows) ==
    {o \in Orders(NodesOf(rows)) :
        \A i, j \in 1..Len(o) : i < j => CountOf(rows, o[i]) <= CountOf(rows, o[j])}

\* df['Node_id'].value_counts(): the distinct nodes by descending count.
\* pandas leaves the order of nodes with equal counts unspecified: every
\* order of them is a possible outcome.
ValueCountsOrders(rows) ==
    {o \in Orders(NodesOf(rows)) :
        \A i, j \in 1..Len(o) : i < j => CountOf(rows, o[i]) >= CountOf(rows, o[j])}

\* .nlargest(top_n).index of a series already in descending order: its
\* first top_n labels (keep='first')
nlargest(order, n) == SubSeq(order, 1, IF n < Len(order) THEN n ELSE Len(order))

\* datasets of up to MaxSeries events of three nodes
TopNodeIds == {77, 78, 79}
TopSources ==
    {Csv(expected_columns, rows) :
        rows \in SeqsUpTo({CsvRow(IntCell(0), n, "normal", IntCell(600)) : n \in TopNodeIds},
                          MaxSeries)}

InitTop ==
    /\ source \in TopSources
    /\ pc = "loaded"
    /\ heap = <<load_data(source).frame>>
    /\ df = 1
    /\ err = NoErr
    /\ snapshot = load_data(source).frame.rows
    /\ pred = NoPred
    /\ view = None
    /\ prev = <<>>
    /\ lastCall = "none"
    /\ stats = NoStats
    /\ statsOf = <<>>
    /\ OthersInit

\* top_nodes = df['Node_id'].value_counts().nlargest(top_n).index.  The
\* dashboard's slider offers 5 to 30; the selection is taken for every
\* top_n from 1.
TopNodes ==
    /\ pc = "loaded"
    /\ top_n = 0
    /\ \E n \in 1..MaxTopN, order \in ValueCountsOrders(heap[df].rows) :
          /\ top_n' = n
          /\ top_nodes' = nlargest(order, n)
    /\ UNCHANGED <<source, pc, heap, df, err, snapshot, pred, view, prev, lastCall, stats, statsOf,
                   exportVars, dashVars, chainVars>>

NextTop == TopNodes

SpecTop == InitTop /\ [][NextTop]_vars

---------------------------------------------------------------------------
(* app.py:386-394: the export of a derived view, and its reload *)

MaxExportRows == 3

\* the numbers a Class text of the inputs below may spell
ClassCodes == 0..2

\* the CSV cell a written text is when read_csv reads it back: "nan" is one
\* of read_csv's default missing-value markers, a numeral is a number, any
\* other text is text
CellOf(text) ==
    IF text = "nan" THEN [EmptyCell EXCEPT !.s = "nan"]
    ELSE IF \E n \in ClassCodes : text = IntCell(n).s
    THEN IntCell(CHOOSE n \in ClassCodes : text = IntCell(n).s)
    ELSE IF \E n \in ClassCodes : text = WholeCell(n).s
    THEN WholeCell(CHOOSE n \in ClassCodes : text = WholeCell(n).s)
    ELSE IF \E n \in ClassCodes : text = FracCell(n).s
    THEN FracCell(CHOOSE n \in ClassCodes : text = FracCell(n).s)
    ELSE TextCell(text)

\* to_csv writes a float with its fraction ("1.0", "1.5") and NaN as a blank
FloatCell(x) ==
    IF x = NaN THEN EmptyCell
    ELSE IF x % 2 = 0 THEN WholeCell(x \div 2)
    ELSE FracCell(x \div 2)

\* DataFrame.to_csv(index=False): the header, then one line per row in
\* the frame's order; the index labels are not written
to_csv(frame) ==
    [kind |-> "csv", path |-> "filtered_wsn_data.csv", header |-> frame.columns,
     rows |-> [i \in 1..Len(frame.rows) |->
                 [Event |-> IntCell(frame.rows[i].Event),
                  Time |-> FloatCell(frame.rows[i].Time),
                  S_Node |-> IntCell(frame.rows[i].S_Node),
                  Node_id |-> IntCell(frame.rows[i].Node_id),
                  Rest_Energy |-> FloatCell(frame.rows[i].Rest_Energy),
                  Class |-> CellOf(frame.rows[i].Class)]]]

\* datasets whose Class column holds labels, codes and blanks, and whose
\* Time column holds blanks
ExportRows ==
    {[CsvRow(t, nc[1], "normal", FracCell(600)) EXCEPT !.Class = nc[2]] :
        t \in {IntCell(1), EmptyCell},
        nc \in {<<78, IntCell(1)>>, <<78, EmptyCell>>, <<79, TextCell("normal")>>}}

ExportSources == {Csv(expected_columns, rows) : rows \in SeqsUpTo(ExportRows, MaxExportRows)}

InitExport ==
    /\ source \in ExportSources
    /\ pc = "loaded"
    /\ heap = <<load_data(source).frame>>
    /\ df = 1
    /\ err = NoErr
    /\ snapshot = load_data(source).frame.rows
    /\ pred = NoPred
    /\ view = None
    /\ prev = <<>>
    /\ lastCall = "none"
    /\ stats = NoStats
    /\ statsOf = <<>>
    /\ OthersInit

\* filtered_csv = view.to_csv(index=False)
ToCsv ==
    /\ pc = "loaded"
    /\ view # None
    /\ filtered_csv = <<>>
    /\ filtered_csv' = <<to_csv(heap[view])>>
    /\ UNCHANGED <<source, pc, heap, df, err, snapshot, pred, view, prev, lastCall, stats, statsOf,
                   topVars, reloaded, dashVars, chainVars>>

\* reloaded = load_data(filtered_csv), the exported file given back to the loader
Reload ==
    /\ filtered_csv # <<>>
    /\ reloaded = <<>>
    /\ reloaded' = <<load_data(filtered_csv[1])>>
    /\ UNCHANGED <<source, pc, heap, df, err, snapshot, pred, view, prev, lastCall, stats, statsOf,
                   topVars, filtered_csv, dashVars, chainVars>>

NextExport == FilterData \/ ToCsv \/ Reload

SpecExport == InitExport /\ [][NextExport]_vars

---------------------------------------------------------------------------
(* app.py: the dashboard.  Every interaction runs the script again from  *)
(* the top; only the widgets and st.session_state outlive a run.         *)

DemoPath == "C:/Users/Subrajaa/OneDrive/Documents/Mini Project/Identification of ddos/SmartStudyTracker/WSNBFSFdataset.csv"
MissingDemo == [kind |-> "missing", path |-> DemoPath, header |-> <<>>, rows |-> <<>>]

\* the files a user may upload: datasets of two events at two times, with
\* or without a column of their own, and a file without the required
\* columns
DashRows ==
    {<<CsvRow(IntCell(0), 78, "normal", IntCell(600)), CsvRow(IntCell(1), 78, c, IntCell(600))>> :
        c \in Classes}
DashFiles ==
    {Csv(h, rows) : h \in {expected_columns, expected_columns \o <<"Extra">>}, rows \in DashRows}
    \cup {Csv(<<"Event", "Time">>, <<>>)}

\* app.py:43-55 and :386-394: one run of the script, from the widgets and
\* the session state it starts with
Run(up, demoOn, dfile, session) ==
    LET src == IF up # NoFile THEN up ELSE dfile
        r == load_data(src)
        none == [source |-> NoFile, pc |-> "idle", heap |-> <<>>, df |-> None, err |-> NoErr,
                 shown |-> <<"Please upload a WSN dataset or use the demo data to begin analysis.">>,
                 calls |-> 0, filtered_csv |-> <<>>]
    IN  IF up = NoFile /\ ~demoOn THEN none
        ELSE IF r.ok
        THEN [none EXCEPT !.source = src, !.pc = "loaded", !.heap = <<r.frame>>, !.df = 1,
                          !.shown = IF up # NoFile
                                    THEN <<"Dataset successfully loaded from uploaded file!">>
                                    ELSE <<"Using demo dataset (WSNBFSFdataset.csv)">>,
                          !.calls = 1,
                          !.filtered_csv = IF session = <<>> THEN <<>> ELSE <<to_csv(session[1])>>]
        ELSE IF up = NoFile /\ r.err.type = "FileNotFoundError"
        THEN \* app.py:53-55: st.error and st.stop()
             [none EXCEPT !.source = src, !.pc = "stopped", !.calls = 1,
                          !.shown = <<"Demo dataset not found. Please upload a dataset.">>]
        ELSE \* the exception leaves the script: the run ends with it
             [none EXCEPT !.source = src, !.pc = "failed", !.err = r.err, !.calls = 1,
                          !.shown = r.err.msg]

Rendered(run) ==
    /\ source' = run.source
    /\ pc' = run.pc
    /\ heap' = run.heap
    /\ df' = run.df
    /\ err' = run.err
    /\ shown' = run.shown
    /\ calls' = run.calls
    /\ filtered_csv' = run.filtered_csv
    /\ snapshot' = IF run.pc = "loaded" THEN run.heap[run.df].rows ELSE <<>>
    /\ UNCHANGED <<view, prev, stats, statsOf, topVars, reloaded, demo_file, chainVars>>

\* the first run of a session: no upload, the demo checkbox ticked
InitDash ==
    /\ demo_file \in {MissingDemo} \cup {f \in DashFiles : f.header = expected_columns}
    /\ uploaded_file = NoFile
    /\ use_demo_data = TRUE
    /\ filtered_df = <<>>
    /\ LET run == Run(NoFile, TRUE, demo_file, <<>>)
       IN  /\ source = run.source
           /\ pc = run.pc
           /\ heap = run.heap
           /\ df = run.df
           /\ err = run.err
           /\ shown = run.shown
           /\ calls = run.calls
           /\ filtered_csv = run.filtered_csv
           /\ snapshot = IF run.pc = "loaded" THEN run.heap[run.df].rows ELSE <<>>
    /\ pred = NoPred
    /\ view = None
    /\ prev = <<>>
    /\ lastCall = "none"
    /\ stats = NoStats
    /\ statsOf = <<>>
    /\ TopInit
    /\ reloaded = <<>>
    /\ ChainInit

\* app.py:31: a file is put in the uploader.  The checkbox of app.py:34 is
\* made with the default False while a file is there.
Upload ==
    \E f \in DashFiles \ {uploaded_file} :
        /\ uploaded_file' = f
        /\ use_demo_data' = FALSE
        /\ lastCall' = "upload"
        /\ pred' = NoPred
        /\ UNCHANGED filtered_df
        /\ Rendered(Run(f, FALSE, demo_file, filtered_df))

\* the file is taken out of the uploader; the checkbox is back at its
\* default True
RemoveUpload ==
    /\ uploaded_file # NoFile
    /\ uploaded_file' = NoFile
    /\ use_demo_data' = TRUE
    /\ lastCall' = "remove_upload"
    /\ pred' = NoPred
    /\ UNCHANGED filtered_df
    /\ Rendered(Run(NoFile, TRUE, demo_file, filtered_df))

\* app.py:34: the checkbox is clicked
ToggleDemo ==
    /\ use_demo_data' = ~use_demo_data
    /\ lastCall' = "toggle_demo"
    /\ pred' = NoPred
    /\ UNCHANGED <<uploaded_file, filtered_df>>
    /\ Rendered(Run(uploaded_file, ~use_demo_data, demo_file, filtered_df))

\* app.py:371-379: Apply Filters with a time range of the slider and a
\* selection of the classes of df; the view goes to the session state and
\* the script runs again
ApplyFilters ==
    /\ pc = "loaded"
    /\ \E lo, hi \in SeriesMin(heap[df].rows, "Time")..SeriesMax(heap[df].rows, "Time"),
          selected_classes \in SUBSET {heap[df].rows[i].Class : i \in 1..Len(heap[df].rows)} :
          /\ lo <= hi
          /\ LET mask == {r.idx : r \in {q \in Range(heap[df].rows) :
                                            /\ Ge(q.Time, lo)
                                            /\ Le(q.Time, hi)
                                            /\ q.Class \in selected_classes}}
                 made == Index(heap, df, mask)
             IN  /\ filtered_df' = <<made.heap[made.ref]>>
                 /\ pred' = [time_range |-> TimeRange(lo, hi), node_ids |-> Absent,
                             classes |-> List(selected_classes)]
                 /\ Rendered(Run(uploaded_file, use_demo_data, demo_file, filtered_df'))
    /\ lastCall' = "apply_filters"
    /\ UNCHANGED <<uploaded_file, use_demo_data>>

\* app.py:382-384: Reset Filters pops the key and the script runs again
ResetFilters ==
    /\ pc = "loaded"
    /\ filtered_df' = <<>>
    /\ lastCall' = "reset_filters"
    /\ pred' = NoPred
    /\ UNCHANGED <<uploaded_file, use_demo_data>>
    /\ Rendered(Run(uploaded_file, use_demo_data, demo_file, <<>>))

NextDash == Upload \/ RemoveUpload \/ ToggleDemo \/ ApplyFilters \/ ResetFilters

SpecDash == InitDash /\ [][NextDash]_vars

---------------------------------------------------------------------------
(* blockchain.py: send_wsn_data_to_blockchain and the blockchain panel *)

MaxChainRows == 2

\* the rows of a dataset with more rows of one node than one submission sends
MaxLongRows == 60

\* blockchain.py:366
RowLimit == 50

\* Web3.keccak(text=...).hex(): the text holds time.time(), so the hash is
\* not determined by the arguments; like any call it may also raise
Hashes == {"3fa1", "9c07"}
KeccakOutcomes ==
    {[raised |-> FALSE, value |-> h] : h \in Hashes}
    \cup {[raised |-> TRUE, value |-> "keccak: unsupported text"]}

Returned(success, result) == [raised |-> FALSE, success |-> success, result |-> result]
Propagated(e) == [raised |-> TRUE, success |-> FALSE, result |-> e]

\* as send_wsn_data_to_blockchain, without its try/except
send_unguarded(node_id, energy, node_class, timestamp, keccak) ==
    IF keccak.raised THEN Propagated(keccak.value) ELSE Returned(TRUE, keccak.value)

\* blockchain.py:154-180
send_wsn_data_to_blockchain(node_id, energy, node_class, timestamp, keccak) ==
    IF keccak.raised THEN Returned(FALSE, keccak.value) ELSE Returned(TRUE, keccak.value)

CallOf(node_id, energy, node_class, timestamp, keccak) ==
    [node_id |-> node_id, energy |-> energy, node_class |-> node_class, timestamp |-> timestamp,
     keccak |-> keccak,
     ret |-> send_wsn_data_to_blockchain(node_id, energy, node_class, timestamp, keccak)]

\* the function called on its own
InitSend ==
    /\ source = NoFile
    /\ pc = "idle"
    /\ heap = <<>>
    /\ df = None
    /\ err = NoErr
    /\ snapshot = <<>>
    /\ pred = NoPred
    /\ view = None
    /\ prev = <<>>
    /\ lastCall = "none"
    /\ stats = NoStats
    /\ statsOf = <<>>
    /\ OthersInit

CallSend ==
    /\ pc = "idle"
    /\ \E node_id \in Nodes, energy \in {NaN, 0, 1201}, node_class \in Classes \cup {"nan"},
          timestamp \in {NaN, 0, 3}, keccak \in KeccakOutcomes :
          sent' = <<CallOf(node_id, energy, node_class, timestamp, keccak)>>
    /\ UNCHANGED <<source, pc, heap, df, err, snapshot, pred, view, prev, lastCall, stats, statsOf,
                   topVars, exportVars, dashVars,
                   blockchain_connected, web3_instance, contract_deployed, contract_address,
                   successful_txs, tx_hashes, last_connect, clicked, wrote, form>>

NextSend == CallSend

SpecSend == InitSend /\ [][NextSend]_vars

\* the panel, with a dataset loaded (app.py:61-65)
LongRows ==
    [i \in 1..MaxLongRows |->
        CsvRow(IntCell(i), IF i % 8 = 0 THEN 79 ELSE 78,
               IF i % 5 = 0 THEN "Blackhole" ELSE "normal", IntCell(600))]

ChainSources ==
    {Csv(expected_columns, rows) :
        rows \in SeqsUpTo({CsvRow(IntCell(0), 78, "normal", IntCell(600)),
                           CsvRow(IntCell(1), 79, "Blackhole", IntCell(600))},
                          MaxChainRows)}

InitChain ==
    /\ source \in ChainSources
    /\ pc = "loaded"
    /\ heap = <<load_data(source).frame>>
    /\ df = 1
    /\ err = NoErr
    /\ snapshot = load_data(source).frame.rows
    /\ pred = NoPred
    /\ view = None
    /\ prev = <<>>
    /\ lastCall = "none"
    /\ stats = NoStats
    /\ statsOf = <<>>
    /\ OthersInit

\* as row_limit, without the cap
row_limit_uncapped(n) == n

\* blockchain.py:366: row_limit = min(50, len(filtered_data))
row_limit(n) == IF RowLimit < n THEN RowLimit ELSE n

\* what the hash calls of one submission of n rows do: for a short
\* submission every combination; for a long one no failure, a failure at
\* either end, or only failures
KeccakRuns(n) ==
    IF n <= MaxChainRows THEN [1..n -> KeccakOutcomes]
    ELSE LET ok == [raised |-> FALSE, value |-> "3fa1"]
             ko == [raised |-> TRUE, value |-> "keccak: unsupported text"]
         IN  {[i \in 1..n |-> IF i \in F THEN ko ELSE ok] : F \in {{}, {1}, {n}, 1..n}}

\* as FormReached, without the check of blockchain.py:321-323
FormAlways(deployed) == TRUE

\* blockchain.py:296-299: the panel returns unless connected
EntryReached(connected) == connected

\* blockchain.py:321-323: the panel returns unless a contract is deployed
FormReached(deployed) == deployed

\* blockchain.py:195-206: Connect to Blockchain; connect_to_blockchain
\* gives a connection or None
Connect ==
    /\ pc = "loaded"
    /\ \E w3 \in BOOLEAN :
          IF w3
          THEN /\ blockchain_connected' = TRUE
               /\ web3_instance' = TRUE
               /\ last_connect' = "ok"
          ELSE /\ blockchain_connected' = FALSE
               /\ last_connect' = "failed"
               /\ UNCHANGED web3_instance
    /\ clicked' = "connect"
    /\ sent' = <<>>
    /\ wrote' = FALSE
    /\ form' = NoForm
    /\ UNCHANGED <<source, pc, heap, df, err, snapshot, pred, view, prev, lastCall, stats, statsOf,
                   topVars, exportVars, dashVars,
                   contract_deployed, contract_address, successful_txs, tx_hashes>>

\* blockchain.py:310-319: Deploy Smart Contract; the flag is set before
\* the address is computed
Deploy ==
    /\ pc = "loaded"
    /\ EntryReached(blockchain_connected)
    /\ contract_deployed' = TRUE
    /\ \E keccak \in KeccakOutcomes :
          contract_address' = IF keccak.raised THEN contract_address ELSE "0x" \o keccak.value
    /\ clicked' = "deploy"
    /\ sent' = <<>>
    /\ wrote' = FALSE
    /\ form' = NoForm
    /\ UNCHANGED <<source, pc, heap, df, err, snapshot, pred, view, prev, lastCall, stats, statsOf,
                   topVars, exportVars, dashVars,
                   blockchain_connected, web3_instance, successful_txs, tx_hashes, last_connect>>

\* blockchain.py:346-401: Send to Blockchain
Send ==
    /\ pc = "loaded"
    /\ EntryReached(blockchain_connected)
    /\ FormReached(contract_deployed)
    /\ \E selected_nodes \in SUBSET NodesOf(heap[df].rows), only_attacks \in BOOLEAN :
          \* each value below is computed once and bound by its \E
          \E filtered_data \in {SelectSeq(heap[df].rows,
                                           LAMBDA r : /\ r.Node_id \in selected_nodes
                                                      /\ only_attacks => r.Class # "normal")} :
          \E processed_data \in {SubSeq(filtered_data, 1, row_limit(Len(filtered_data)))} :
             /\ form' = [selected_nodes |-> selected_nodes, only_attacks |-> only_attacks]
             /\ IF selected_nodes = {} \/ filtered_data = <<>>
                THEN /\ sent' = <<>>
                     /\ wrote' = FALSE
                     /\ UNCHANGED <<successful_txs, tx_hashes>>
                ELSE \E keccaks \in KeccakRuns(Len(processed_data)) :
                     \E all_calls \in {[i \in 1..Len(processed_data) |->
                                           CallOf(processed_data[i].Node_id,
                                                  processed_data[i].Rest_Energy,
                                                  processed_data[i].Class,
                                                  processed_data[i].Time, keccaks[i])]} :
                     \E raising \in {{i \in 1..Len(all_calls) : all_calls[i].ret.raised}} :
                     \E calls_made \in {SubSeq(all_calls, 1, IF raising = {} THEN Len(all_calls)
                                                               ELSE Min(raising))} :
                     \E succeeded \in {SelectSeq(calls_made, LAMBDA c : c.ret.success)} :
                        /\ sent' = calls_made
                        /\ IF raising = {}
                           THEN /\ successful_txs' = <<Len(succeeded)>>
                                /\ tx_hashes' = [i \in 1..Len(succeeded) |-> succeeded[i].ret.result]
                                /\ wrote' = TRUE
                           ELSE /\ wrote' = FALSE
                                /\ UNCHANGED <<successful_txs, tx_hashes>>
    /\ clicked' = "send"
    /\ UNCHANGED <<source, pc, heap, df, err, snapshot, pred, view, prev, lastCall, stats, statsOf,
                   topVars, exportVars, dashVars,
                   blockchain_connected, web3_instance, contract_deployed, contract_address,
                   last_connect>>

NextChain == Connect \/ Deploy \/ Send

SpecChain == InitChain /\ [][NextChain]_vars

\* submissions of the form alone, from a session that has connected and
\* deployed a contract, on the short datasets and on the long one
InitSubmit ==
    /\ source \in ChainSources \cup {Csv(expected_columns, LongRows)}
    /\ pc = "loaded"
    /\ heap = <<load_data(source).frame>>
    /\ df = 1
    /\ err = NoErr
    /\ snapshot = load_data(source).frame.rows
    /\ pred = NoPred
    /\ view = None
    /\ prev = <<>>
    /\ lastCall = "none"
    /\ stats = NoStats
    /\ statsOf = <<>>
    /\ TopInit /\ ExportInit /\ DashInit
    /\ blockchain_connected = TRUE
    /\ web3_instance = TRUE
    /\ contract_deployed = TRUE
    /\ contract_address = "0x3fa1"
    /\ successful_txs = <<>>
    /\ tx_hashes = <<>>
    /\ last_connect = "ok"
    /\ clicked = "deploy"
    /\ sent = <<>>
    /\ wrote = FALSE
    /\ form = NoForm

NextSubmit == Send

SpecSubmit == InitSubmit /\ [][NextSubmit]_vars

---------------------------------------------------------------------------
(* The loader's claims *)

\* what is wrong with a source, read off the source itself
MissingOf(src) == {col \in Range(expected_columns) : col \notin Range(src.header)}
TextIn(src, col) == \E i \in 1..Len(src.rows) : src.rows[i][col].k = "text"
BlankIn(src, col) == \E i \in 1..Len(src.rows) : src.rows[i][col].k = "empty"
Unconvertible(src, col) ==
    \/ col \in IntColumns \cup FloatColumns /\ TextIn(src, col)
    \/ col \in IntColumns /\ BlankIn(src, col)
Cause(src) ==
    IF src.kind # "csv" THEN "unreadable"
    ELSE IF MissingOf(src) # {} THEN "schema"
    ELSE IF \E col \in IntColumns \cup FloatColumns : Unconvertible(src, col) THEN "coercion"
    ELSE "none"
WellFormed(src) ==
    /\ src.kind = "csv"
    /\ MissingOf(src) = {}
    /\ \A i \in 1..Len(src.rows) :
          /\ \A col \in IntColumns : src.rows[i][col].k = "int"
          /\ \A col \in FloatColumns : src.rows[i][col].k \in {"int", "frac"}
          /\ src.rows[i].Class.k = "text"

\* C1: a CSV whose header lacks required columns makes load_data raise
\* "Missing required columns: " followed by exactly the missing required
\* columns, each once, and no dataset is returned.
C1_MissingColumnsNamed ==
    (pc # "start" /\ source.kind = "csv" /\ MissingOf(source) # {}) =>
        /\ pc = "failed"
        /\ df = None
        /\ heap = <<>>
        /\ err.msg[2] = "Missing required columns: "
        /\ Range(err.msg[3]) = MissingOf(source)
        /\ Len(err.msg[3]) = Cardinality(MissingOf(source))

C1_Witness ==
    /\ pc = "failed"
    /\ source.kind = "csv"
    /\ MissingOf(source) = {"Event", "Class"}
    /\ "Extra" \in Range(source.header)
    /\ Len(source.rows) = MaxRows
    /\ err.msg[3] = <<"Event", "Class">>

\* C2: the class of the error load_data raises tells its cause: two
\* failures with different causes (unreadable source, missing column,
\* unconvertible column) raise errors of different classes.
C2_ErrorKindsDistinct ==
    pc = "failed" =>
        \A other \in LoadSources :
            Cause(other) \notin {"none", Cause(source)} => load_data(other).err.type # err.type

\* C3: text in one of the converted numeric columns makes load_data raise
\* an error that names the offending column, and no dataset is returned.
C3_CoercionErrorNamesColumn ==
    (pc # "start" /\ Cause(source) = "coercion") =>
        /\ pc = "failed"
        /\ df = None
        /\ \E col \in IntColumns \cup FloatColumns :
              /\ Unconvertible(source, col)
              /\ col \in Range(err.msg[3])

\* C4: a well-formed CSV with the 18 required columns loads, and the
\* dataset has one row per data row of the input, in the input's order.
C4_OneRowPerDataRow ==
    (pc # "start" /\ WellFormed(source)) =>
        /\ pc = "loaded"
        /\ Len(heap[df].rows) = Len(source.rows)
        /\ \A i \in 1..Len(source.rows) :
              /\ heap[df].rows[i].idx = i - 1
              /\ heap[df].rows[i].Node_id = source.rows[i].Node_id.v
              /\ heap[df].rows[i].Time = FloatOf(source.rows[i].Time)
              /\ heap[df].rows[i].Class = source.rows[i].Class.s

C4_Witness ==
    /\ pc = "loaded"
    /\ WellFormed(source)
    /\ Len(source.rows) = 2
    /\ source.rows[1] = source.rows[2]
    /\ Len(heap[df].rows) = 2

---------------------------------------------------------------------------
(* The filter engine's claims *)

\* a row satisfies a clause that is in force; a clause that is None or an
\* empty list is not in force (C6)
InForce(clause) == clause.given /\ clause.items # {}
Satisfies(r, p) ==
    /\ InForce(p.time_range) =>
          r.Time # NaN /\ p.time_range.min <= r.Time /\ r.Time <= p.time_range.max
    /\ InForce(p.node_ids) => r.Node_id \in p.node_ids.items
    /\ InForce(p.classes) => r.Class \in p.classes.items

IsSubsequence(a, b) ==
    \E f \in [1..Len(a) -> 1..Len(b)] :
        /\ \A i \in 1..Len(a) : a[i] = b[f[i]]
        /\ \A i, j \in 1..Len(a) : i < j => f[i] < f[j]

\* C5: filter_data keeps a row exactly when the row satisfies every
\* clause in force: min <= Time <= max (both ends included), Node_id in
\* node_ids, Class in classes.
C5_KeptIffAllClauses ==
    view # None =>
        \A r \in Range(prev) : (r \in Range(heap[view].rows)) <=> Satisfies(r, pred)

C5_Witness ==
    /\ lastCall = "filter_data"
    /\ pred = [time_range |-> TimeRange(0, 2), node_ids |-> List({78}),
               classes |-> List({"Blackhole"})]
    /\ Len(prev) = 2
    /\ prev[1].Time = 2 /\ prev[1].Node_id = 78 /\ prev[1].Class = "Blackhole"
    /\ prev[2].Time = 0 /\ prev[2].Node_id = 78 /\ prev[2].Class = "normal"
    /\ heap[view].rows = <<prev[1]>>

\* C6: an empty node_ids or classes list restricts nothing: the view is
\* the one the same call gives with that argument left out.
C6_EmptyListIsNoRestriction ==
    (lastCall = "filter_data" /\ (pred.node_ids = List({}) \/ pred.classes = List({}))) =>
        LET nodes == IF pred.node_ids = List({}) THEN Absent ELSE pred.node_ids
            class == IF pred.classes = List({}) THEN Absent ELSE pred.classes
            r == filter_data(heap, df, pred.time_range, nodes, class)
        IN  heap[view] = r.heap[r.ref]

C6_Witness ==
    /\ lastCall = "filter_data"
    /\ pred.node_ids = List({})
    /\ pred.classes = List({})
    /\ pred.time_range = TimeRange(0, 0)
    /\ Len(heap[df].rows) = 2
    /\ Len(heap[view].rows) = 1

\* C7: filter_data with no argument but the dataset returns a dataset
\* equal to its input: the same columns, the same rows, the same order.
C7_NoClauseIsIdentity ==
    (lastCall = "filter_data" /\ pred = NoPred) => heap[view] = heap[df]

C7_Witness ==
    /\ lastCall = "filter_data"
    /\ pred = NoPred
    /\ Len(heap[view].rows) = 2
    /\ heap[view].rows[1].Time = NaN
    /\ heap[view].rows[2].Time = 0

\* C8: the result of filter_data is a subsequence of its input: every
\* row of the result is a row of the input, none is added or repeated,
\* and the rows keep their relative order.
C8_ResultIsSubsequence ==
    view # None =>
        /\ IsSubsequence(heap[view].rows, prev)
        /\ heap[view].columns = heap[df].columns

C8_Witness ==
    /\ lastCall = "filter_data"
    /\ Len(prev) = 2
    /\ prev[1].Time = 2 /\ prev[2].Time = 0
    /\ pred.classes = List({"normal"} \cup {"Blackhole"})
    /\ heap[view].rows = prev

\* C9: filter_data is idempotent: filtering a view again with the
\* arguments that made it returns a dataset equal to the view.
C9_Idempotent ==
    lastCall = "filter_again" => heap[view].rows = prev

C9_Witness ==
    /\ lastCall = "filter_again"
    /\ pred.time_range = TimeRange(2, 2)
    /\ pred.node_ids = List({78})
    /\ Len(snapshot) = 2
    /\ Len(prev) = 1
    /\ heap[view].rows = prev

\* C10: filter_data and get_stats leave the loaded dataset as it was
\* loaded, and every derived view is an object other than the dataset.
C10_SourceNotMutated ==
    pc = "loaded" =>
        /\ df \in DOMAIN heap
        /\ heap[df].rows = snapshot
        /\ heap[df].columns = source.header
        /\ view # None => view # df /\ view \in DOMAIN heap

C10_Witness ==
    /\ lastCall = "filter_again"
    /\ stats # NoStats
    /\ pred = NoPred
    /\ Len(snapshot) = 2
    /\ heap[view].rows = snapshot

---------------------------------------------------------------------------
(* The claims on get_stats *)

RECURSIVE Total(_, _)
Total(f, S) ==
    IF S = {} THEN 0
    ELSE LET c == CHOOSE x \in S : TRUE IN f[c] + Total(f, S \ {c})

\* C11: get_stats of the empty dataset returns (it does not raise) with
\* the counts 0, no class counted, and NaN, pandas' "no data" value, for
\* the time range and for the mean, minimum and maximum of Rest_Energy.
C11_EmptyDatasetStats ==
    (stats # NoStats /\ statsOf = <<>>) =>
        /\ stats.total_records = 0
        /\ stats.unique_nodes = 0
        /\ DOMAIN stats.class_distribution = {}
        /\ stats.time_range = <<NaN, NaN>>
        /\ stats.avg_energy[1] = NaN
        /\ stats.min_energy = NaN
        /\ stats.max_energy = NaN

C11_Witness ==
    /\ stats # NoStats
    /\ statsOf = <<>>
    /\ lastCall = "filter_data"
    /\ Len(snapshot) = 2
    /\ stats.time_range = <<NaN, NaN>>

\* C12: total_records of get_stats(d) is the number of rows of d, for the
\* loaded dataset, for every view filter_data derives, and for the empty
\* dataset.
C12_TotalRecordsIsRowCount ==
    stats # NoStats => stats.total_records = Len(statsOf)

C12_Witness ==
    /\ stats # NoStats
    /\ lastCall = "filter_again"
    /\ Len(snapshot) = 2
    /\ Len(statsOf) = 1
    /\ stats.total_records = 1

\* C13: class_distribution of get_stats(d) has an entry for exactly the
\* Class values that occur in d, each with the number of rows of d of that
\* Class, and the counts add up to total_records.
C13_ClassDistributionCounts ==
    stats # NoStats =>
        LET cd == stats.class_distribution
        IN  /\ DOMAIN cd = {statsOf[i].Class : i \in 1..Len(statsOf)}
            /\ \A c \in DOMAIN cd :
                  cd[c] = Cardinality({i \in 1..Len(statsOf) : statsOf[i].Class = c})
            /\ Total(cd, DOMAIN cd) = stats.total_records

C13_Witness ==
    /\ stats # NoStats
    /\ Len(statsOf) = 2
    /\ statsOf[1].Node_id = 79 /\ statsOf[1].Class = "normal"
    /\ statsOf[2].Node_id = 78 /\ statsOf[2].Class = "Blackhole"
    /\ stats.total_records = 2
    /\ stats.class_distribution = [c \in {"normal", "Blackhole"} |-> 1]

---------------------------------------------------------------------------
(* The claims on the top-nodes selection *)

InTop(n) == n \in Range(top_nodes)

\* C14: the selection holds min(top_n, number of distinct nodes) distinct
\* node ids of the dataset, in order of descending event count, and no
\* node left out has more events than a node selected.
C14_TopNodesByCount ==
    top_n > 0 =>
        LET rows == heap[df].rows
            distinct == Cardinality(NodesOf(rows))
        IN  /\ Len(top_nodes) = IF top_n < distinct THEN top_n ELSE distinct
            /\ Range(top_nodes) \subseteq NodesOf(rows)
            /\ Cardinality(Range(top_nodes)) = Len(top_nodes)
            /\ \A i, j \in 1..Len(top_nodes) :
                  i < j => CountOf(rows, top_nodes[i]) >= CountOf(rows, top_nodes[j])
            /\ \A n \in Range(top_nodes), q \in NodesOf(rows) \ Range(top_nodes) :
                  CountOf(rows, n) >= CountOf(rows, q)

C14_Witness ==
    /\ top_n = 1
    /\ Len(heap[df].rows) = 3
    /\ CountOf(heap[df].rows, 79) = 2
    /\ CountOf(heap[df].rows, 78) = 1
    /\ heap[df].rows[1].Node_id = 78
    /\ top_nodes = <<79>>

\* C15: nodes with equal event counts are taken in ascending Node_id
\* order, inside the selection and at its cut: the selection depends on
\* the per-node counts alone, not on the order of the rows.
C15_TiesByAscendingNodeId ==
    top_n > 0 =>
        LET rows == heap[df].rows
        IN  /\ \A i, j \in 1..Len(top_nodes) :
                  (i < j /\ CountOf(rows, top_nodes[i]) = CountOf(rows, top_nodes[j]))
                      => top_nodes[i] < top_nodes[j]
            /\ \A n \in Range(top_nodes), q \in NodesOf(rows) \ Range(top_nodes) :
                  CountOf(rows, n) = CountOf(rows, q) => n < q

---------------------------------------------------------------------------
(* The claims on the export *)

SameContent(f, g) ==
    /\ f.columns = g.columns
    /\ Len(f.rows) = Len(g.rows)
    /\ \A i \in 1..Len(f.rows) : SameValues(f.rows[i], g.rows[i])

\* C16: a derived view written by to_csv(index=False) and given to
\* load_data loads, and the dataset loaded has the columns, the rows and
\* the row order of the view, the empty view included.
C16_RoundTrip ==
    reloaded # <<>> => reloaded[1].ok /\ SameContent(reloaded[1].frame, heap[view])

---------------------------------------------------------------------------
(* The claims on the dashboard *)

\* C17: whenever a run offers Download Filtered Data, the rows exported
\* are rows of the dataset that run loaded, in its order, under its
\* columns: never rows of a dataset loaded before.
C17_ExportIsCurrentView ==
    filtered_csv # <<>> =>
        /\ pc = "loaded"
        /\ filtered_csv[1].header = heap[df].columns
        /\ IsSubsequence(filtered_csv[1].rows, to_csv(heap[df]).rows)

\* C18: a run that finds no file at the demo path shows "Demo dataset not
\* found. Please upload a dataset.", stops there and renders no dataset;
\* no run calls load_data more than once.
C18_MissingDemoIsSurfaced ==
    /\ calls <= 1
    /\ (uploaded_file = NoFile /\ use_demo_data /\ demo_file = MissingDemo) =>
          /\ pc = "stopped"
          /\ shown = <<"Demo dataset not found. Please upload a dataset.">>
          /\ df = None
          /\ filtered_csv = <<>>

---------------------------------------------------------------------------
(* The claims on the blockchain module *)

\* C19: send_wsn_data_to_blockchain never raises: whatever its arguments
\* and whatever happens inside, it returns (True, a transaction hash) or
\* (False, an error message), and it leaves the session state as it was.
C19_SendNeverRaises ==
    \A i \in 1..Len(sent) :
        /\ ~sent[i].ret.raised
        /\ sent[i].ret.success => sent[i].ret.result \in Hashes
        /\ ~sent[i].ret.success => sent[i].ret.result = sent[i].keccak.value
        /\ pc = "idle" =>
              /\ ~blockchain_connected /\ ~web3_instance /\ ~contract_deployed
              /\ successful_txs = <<>> /\ tx_hashes = <<>>

C19_Witness ==
    /\ pc = "idle"
    /\ Len(sent) = 1
    /\ sent[1].keccak.raised
    /\ sent[1].timestamp = NaN
    /\ ~sent[1].ret.success

\* C20: a run of the panel calls send_wsn_data_to_blockchain, or writes
\* successful_txs and tx_hashes, only with blockchain_connected and
\* contract_deployed both True and the last connection attempt a success;
\* Deploy Smart Contract is handled only while connected.
C20_SendOnlyConnectedAndDeployed ==
    /\ (sent # <<>> \/ wrote) =>
          blockchain_connected /\ contract_deployed /\ last_connect = "ok"
    /\ clicked \in {"deploy", "send"} => blockchain_connected /\ last_connect = "ok"
    /\ last_connect = "failed" => ~blockchain_connected

C20_Witness ==
    /\ clicked = "send"
    /\ wrote
    /\ Len(sent) = 2
    /\ successful_txs = <<1>>
    /\ Len(tx_hashes) = 1

---------------------------------------------------------------------------
(* The dashboard's filter against filter_data *)

\* filter_data(df, time_range, classes=selected_classes) on the dataset of
\* the run, for the selection of the last Apply Filters
ByFilterData ==
    LET r == filter_data(heap, df, pred.time_range, pred.node_ids, pred.classes)
    IN  r.heap[r.ref]

\* C21: the view Apply Filters stores has the rows filter_data gives for
\* the selected time range and the selected classes, whatever the
\* selection, the selection of no class included.
C21_ApplyFiltersIsFilterData ==
    lastCall = "apply_filters" => filtered_df[1] = ByFilterData

---------------------------------------------------------------------------
(* The claims on one submission of the blockchain form *)

\* the rows of the dataset the submitted form selects, in dataset order
Matching ==
    SelectSeq(heap[df].rows,
              LAMBDA r : /\ r.Node_id \in form.selected_nodes
                         /\ form.only_attacks => r.Class # "normal")

NothingToSend == form.selected_nodes = {} \/ Matching = <<>>

Cap == IF Len(Matching) < 50 THEN Len(Matching) ELSE 50

SubmissionSendsFirstRows ==
    clicked = "send" =>
        IF NothingToSend
        THEN sent = <<>>
        ELSE /\ Len(sent) = Cap
             /\ LET rows == Matching
                IN  \A i \in 1..Cap :
                       /\ sent[i].node_id = rows[i].Node_id
                       /\ sent[i].energy = rows[i].Rest_Energy
                       /\ sent[i].node_class = rows[i].Class
                       /\ sent[i].timestamp = rows[i].Time
             /\ successful_txs # <<>>
             /\ successful_txs[1] = Len(tx_hashes)
             /\ successful_txs[1] <= Cap

EmptySubmissionWritesNothing ==
    (clicked' = "send" /\ NothingToSend') => UNCHANGED <<successful_txs, tx_hashes>>

\* C22: a submission with a selected node and a matching row sends the
\* first min(50, matching rows) matching rows in dataset order, and then
\* successful_txs is the length of tx_hashes, at most that number; a
\* submission with no selected node or no matching row sends nothing and
\* leaves successful_txs and tx_hashes as they were.
C22_SubmissionSendsCappedPrefix ==
    []SubmissionSendsFirstRows /\ [][EmptySubmissionWritesNothing]_vars

\* more than 50 rows match, not all of them at the head of the dataset,
\* and one of the calls fails
C22_Witness ==
    /\ clicked = "send"
    /\ Len(Matching) > 50
    /\ Len(Matching) < Len(heap[df].rows)
    /\ Len(sent) = 50
    /\ successful_txs = <<49>>

=============================================================================
